---- MODULE Spec2Model ----
(***************************************************************************)
(* ParallelChecker (package graph): a bounded fan-out of DispatchCheck     *)
(* calls.  One dispatch-loop goroutine takes requests from the unbuffered  *)
(* channel toCheck, one worker goroutine per request calls the backend,    *)
(* a weighted semaphore of maxConcurrent tokens bounds the workers, an     *)
(* errgroup keeps the first error and cancels checkCtx, and a mutex guards *)
(* the result set.                                                         *)
(*                                                                         *)
(* Library semantics used (golang.org/x/sync, Go channels):                *)
(*  - semaphore.Weighted.Acquire(ctx, n) returns ctx.Err() when ctx is     *)
(*    done at the call or becomes done while it waits (tokens granted to   *)
(*    a waiter that then sees ctx done are put back): the behaviour of     *)
(*    x/sync from v0.7.0 on, where Acquire looks at ctx.Done() first;      *)
(*  - errgroup.Group.Go adds to the wait group synchronously; a task's     *)
(*    non-nil error is stored once (errOnce) and then cancels checkCtx;    *)
(*    Wait blocks until every task is done, cancels and returns the error; *)
(*  - a send on an unbuffered channel blocks until a receiver takes it,    *)
(*    a send on a closed channel panics, a receive on a closed channel     *)
(*    yields ok = false.                                                   *)
(***************************************************************************)
EXTENDS Integers, Sequences, FiniteSets, TLC

\* Bounds of the model.
MaxQueue == 3
MaxConcurrent == 2

\* Resource identities are opaque to the checker, so the caller's inputs are
\* enumerated up to renaming: a call names a resource already queued or the
\* first one not yet queued.
ResourceOrder == <<"A", "B">>
Resources == {ResourceOrder[k] : k \in 1..Len(ResourceOrder)}
Outcomes == {"MEMBER", "NOT_MEMBER", "ERR"}

Reqs == 1..MaxQueue

VARIABLES
    maxConcurrent,  \* pc.maxConcurrent, fixed at construction
    subject,        \* pc.subject, fixed at construction
    callerPc,       \* the goroutine calling Start and QueueCheck
    sendRes,        \* the resource of the request the caller is sending
    sendMeta,       \* its Metadata
    sendSubj,       \* its Subject
    finPc,          \* the goroutine calling Finish
    retNil,         \* Finish returned a nil *ONRSet
    retColl,        \* the set Finish returned (when not nil)
    retErr,         \* the error Finish returned
    closed,         \* toCheck is closed
    panicked,       \* a goroutine panicked: the process is gone
    buf,            \* the requests held in toCheck's buffer
    loopPc,         \* position of the dispatch loop goroutine
    loopErr,        \* the error the dispatch loop returns
    granted,        \* the semaphore granted the loop's queued waiter
    cur,            \* semaphore.Weighted.cur: tokens held
    nReq,           \* requests the loop has received (= workers spawned)
    wpc,            \* position of each worker goroutine
    wres,           \* req.ObjectAndRelation of each worker (until its last use)
    werr,           \* each worker function's err != nil (until its exit)
    wmeta,          \* worker i: req.Metadata, until DispatchCheck returned
    wsubj,          \* worker i: req.Subject, until DispatchCheck returned
    mu,             \* pc.mu: 0 when free, else the worker holding it
    results,        \* pc.results: the number of entries held for each resource
    wsnap,          \* a worker inside results.Add: the contents it read
    gerr,           \* errgroup's g.err
    ctxDone,        \* checkCtx is done
    parentDone,     \* the caller-supplied ctx is done
    firstErr,       \* history: the first error a task reported
    queued,         \* history: the resources of the requests the loop received
    memberSeen,     \* history: the resources a backend call returned MEMBER for
    backendFailed   \* history: a backend call has returned an error

cfgVars == <<maxConcurrent, subject>>
callerVars == <<callerPc, sendRes, sendMeta, sendSubj>>
finVars == <<finPc, retNil, retColl, retErr>>
chanVars == <<closed, panicked, buf>>
loopVars == <<loopPc, loopErr, granted>>
workerVars == <<wpc, wres, werr, wmeta, wsubj>>
setVars == <<mu, results, wsnap>>
groupVars == <<gerr, ctxDone, firstErr>>
histVars == <<queued, memberSeen, backendFailed>>

vars == <<cfgVars, callerVars, finVars, chanVars, loopVars, cur, nReq,
          workerVars, setVars, groupVars, parentDone, histVars>>

\* error values
NilErr == <<"nil", 0>>
CtxErr == <<"context canceled", 0>>
BackendErr(i) == <<"backend", i>>

NoRes == "none"

\* The subject handed to NewParallelChecker.
Subject == "subject"

\* The metadata handed to the k-th QueueCheck call: opaque to the checker,
\* told apart from that of every other call.
Meta(k) == <<"meta", k>>
NoMeta == <<"nil", 0>>

\* make(chan *v1.DispatchCheckRequest): no capacity.
ChanCap == 0

\* tuple.NewONRSet(): the empty set.
NewONRSet == [r \in Resources |-> 0]

\* The state NewParallelChecker(ctx, c, subject, n) returns.
InitState(n) ==
    /\ maxConcurrent = n
    /\ subject = Subject
    /\ callerPc = "created"
    /\ sendRes = NoRes
    /\ sendMeta = NoMeta
    /\ sendSubj = NoRes
    /\ buf = <<>>
    /\ finPc = "none"
    /\ retNil = TRUE
    /\ retColl = {}
    /\ retErr = NilErr
    /\ closed = FALSE
    /\ panicked = FALSE
    /\ loopPc = "idle"
    /\ loopErr = NilErr
    /\ granted = FALSE
    /\ cur = 0
    /\ nReq = 0
    /\ wpc = [i \in Reqs |-> "none"]
    /\ wres = [i \in Reqs |-> NoRes]
    /\ werr = [i \in Reqs |-> FALSE]
    /\ wmeta = [i \in Reqs |-> NoMeta]
    /\ wsubj = [i \in Reqs |-> NoRes]
    /\ mu = 0
    /\ results = NewONRSet
    /\ wsnap = [i \in Reqs |-> NewONRSet]
    /\ gerr = NilErr
    /\ ctxDone = FALSE
    /\ parentDone = FALSE
    /\ firstErr = NilErr
    /\ queued = {}
    /\ memberSeen = {}
    /\ backendFailed = FALSE

\* Construction with a concurrency limit of at least one.
Init == \E n \in 1..MaxConcurrent : InitState(n)

\* Construction with any limit the uint8 parameter admits, zero included.
AnyInit == \E n \in 0..MaxConcurrent : InitState(n)

(***************************************************************************)
(* Helpers                                                                 *)
(***************************************************************************)
Upd(f, i, v) == [f EXCEPT ![i] = v]

\* tuple.ONRSet: the resources the set holds.
Members(s) == {r \in Resources : s[r] > 0}

\* tuple.ONRSet.Add: a resource already held is not added again.
ONRSetAddAgain(s, r) == [s EXCEPT ![r] = @ + 1]
ONRSetAdd(s, r) == IF s[r] > 0 THEN s ELSE [s EXCEPT ![r] = 1]

\* Worker tasks started with g.Go that have not called g.done().
WorkersRunning == {i \in Reqs : wpc[i] \notin {"none", "done"}}

\* Workers inside pc.c.DispatchCheck.
InBackend == {i \in Reqs : wpc[i] = "calling"}

\* errgroup: g.errOnce.Do(func() { g.err = err; g.cancel(g.err) })
ErrOnceOverwrites(old, e) == e
ErrOnce(old, e) == IF old = NilErr THEN e ELSE old

\* semaphore.Weighted.Acquire: "select { case <-done: return ctx.Err() }"
AcquireIgnoresDone(done) == FALSE
AcquireSeesDone(done) == done

\* semaphore.Weighted: s.size - s.cur >= n
SemAlwaysFits(n) == TRUE
SemFits(n) == maxConcurrent - cur >= n

\* The weight the loop's queued waiter asks for (0: no waiter).
WaiterWeight ==
    IF loopPc = "wait1" THEN 1
    ELSE IF loopPc = "waitN" THEN maxConcurrent
    ELSE 0

\* res.Membership == v1.DispatchCheckResponse_MEMBER
AnyAnswerIsMember(out) == out # "ERR"
IsMember(out) == out = "MEMBER"

\* g.wg.Wait(): the loop and every worker have called g.done()
WaitOnlyForLoop == loopPc = "done"
WaitReturns == loopPc = "done" /\ WorkersRunning = {}

\* Finish: "if err != nil { return nil, err }; return pc.results, nil"
FinishAlwaysReturnsSet(err) == FALSE
FinishNeverReturnsSet(err) == TRUE
FinishReturnsNil(err) == err # NilErr

\* The dispatch loop has passed its last Acquire: "return nil" is reached.
Drained == loopPc \in {"ret", "done"} /\ loopErr = NilErr

(***************************************************************************)
(* The caller: Start, QueueCheck, Finish                                   *)
(***************************************************************************)
Inputs ==
    queued \cup (IF Cardinality(queued) < Len(ResourceOrder)
                 THEN {ResourceOrder[Cardinality(queued) + 1]}
                 ELSE {})

\* pc.g.Go(func() error {...}): the dispatch loop goroutine is started.
Start ==
    /\ ~panicked
    /\ callerPc = "created"
    /\ callerPc' = "idle"
    /\ loopPc' = "acquire"
    /\ UNCHANGED <<cfgVars, sendRes, sendMeta, sendSubj, finVars, chanVars,
                   loopErr, granted, cur, nReq, workerVars, setVars,
                   groupVars, parentDone, histVars>>

\* &v1.DispatchCheckRequest{Metadata: meta, ObjectAndRelation: resource,
\* Subject: pc.subject}
RequestWithResourceAsSubject(meta, resource, subj) ==
    [Metadata |-> meta, ObjectAndRelation |-> resource, Subject |-> resource]
DispatchCheckRequest(meta, resource, subj) ==
    [Metadata |-> meta, ObjectAndRelation |-> resource, Subject |-> subj]

\* A send on toCheck returns at once while the buffer has room.
SendFitsOne(len) == len < 1
SendFits(len) == len < ChanCap

\* pc.toCheck <- &v1.DispatchCheckRequest{...}: the send begins and, the
\* channel having no room, blocks until the loop receives.
QueueCheck(r) ==
    /\ ~panicked
    /\ callerPc = "idle"
    /\ finPc = "none"
    /\ nReq + Len(buf) < MaxQueue
    /\ LET req == DispatchCheckRequest(Meta(nReq + Len(buf) + 1), r, subject)
       IN  IF SendFits(Len(buf))
           THEN /\ buf' = Append(buf, req)
                /\ UNCHANGED callerVars
           ELSE /\ buf' = buf
                /\ callerPc' = "sending"
                /\ sendRes' = req.ObjectAndRelation
                /\ sendMeta' = req.Metadata
                /\ sendSubj' = req.Subject
    /\ UNCHANGED <<cfgVars, finVars, closed, panicked, loopVars, cur, nReq,
                   workerVars, setVars, groupVars, parentDone, histVars>>

\* QueueCheck called after Finish closed toCheck: the send on the closed
\* channel panics at once, the request goes nowhere.
QueueCheckAfterFinish(r) ==
    /\ ~panicked
    /\ callerPc = "idle"
    /\ finPc # "none"
    /\ callerPc' = "panicked"
    /\ panicked' = TRUE
    /\ UNCHANGED <<cfgVars, sendRes, sendMeta, sendSubj, finVars, closed,
                   loopVars, cur, nReq, workerVars, setVars, groupVars,
                   parentDone, histVars, buf>>

\* A send that was blocked when toCheck was closed panics.
SendPanics ==
    /\ ~panicked
    /\ callerPc = "sending"
    /\ closed
    /\ callerPc' = "panicked"
    /\ panicked' = TRUE
    /\ UNCHANGED <<cfgVars, sendRes, sendMeta, sendSubj, finVars, closed,
                   loopVars, cur, nReq, workerVars, setVars, groupVars,
                   parentDone, histVars, buf>>

\* close(pc.toCheck)
Close ==
    /\ ~panicked
    /\ finPc = "none"
    /\ closed' = TRUE
    /\ finPc' = "waiting"
    /\ UNCHANGED <<cfgVars, callerVars, retNil, retColl, retErr, panicked,
                   loopVars, cur, nReq, workerVars, setVars, groupVars,
                   parentDone, histVars, buf>>

\* Finish called by the caller once its QueueCheck calls have returned.
FinishClose == callerPc = "idle" /\ Close

\* Finish called from another goroutine while a QueueCheck is blocked.
FinishCloseWhileSending == callerPc = "sending" /\ Close

\* pc.g.Wait() returns (it cancels checkCtx), and Finish returns.
FinishReturn ==
    /\ ~panicked
    /\ finPc = "waiting"
    /\ WaitReturns
    /\ finPc' = "returned"
    /\ ctxDone' = TRUE
    /\ retErr' = gerr
    /\ retNil' = FinishReturnsNil(gerr)
    /\ retColl' = IF FinishReturnsNil(gerr) THEN {} ELSE Members(results)
    /\ UNCHANGED <<cfgVars, callerVars, chanVars, loopVars, cur, nReq,
                   workerVars, setVars, gerr, firstErr, parentDone, histVars>>

\* The caller-supplied context is cancelled or times out while checkCtx is
\* still live and the loop has not drained.  (checkCtx is read by Acquire
\* only: a cancellation after either point changes nothing the checker
\* reads.)
ParentCancel ==
    /\ ~panicked
    /\ ~ctxDone
    /\ ~Drained
    /\ parentDone' = TRUE
    /\ ctxDone' = TRUE
    /\ UNCHANGED <<cfgVars, callerVars, finVars, chanVars, loopVars, cur,
                   nReq, workerVars, setVars, gerr, firstErr, histVars>>

(***************************************************************************)
(* The dispatch loop goroutine                                             *)
(***************************************************************************)
\* The loop function returns e: the next step is the errgroup's wrapper.
LoopReturns(e) ==
    /\ loopPc' = "ret"
    /\ loopErr' = e
    /\ granted' = FALSE

\* sem.Acquire(pc.checkCtx, n), up to the point where it returns or queues a
\* waiter: (1) ctx done: ctx.Err(); (2) the tokens are free: take them;
\* (3) otherwise wait.
AcquireCall(n, okPc, waitPc) ==
    IF AcquireSeesDone(ctxDone)
    THEN LoopReturns(CtxErr) /\ cur' = cur
    ELSE IF SemFits(n)
    THEN /\ cur' = cur + n
         /\ IF okPc = "ret"
            THEN LoopReturns(NilErr)
            ELSE loopPc' = okPc /\ UNCHANGED <<loopErr, granted>>
    ELSE /\ loopPc' = waitPc
         /\ granted' = FALSE
         /\ UNCHANGED <<loopErr, cur>>

\* The queued waiter wakes: "case <-done" puts granted tokens back and
\* returns ctx.Err(); "case <-ready" checks done again.
AcquireWakeLeaks(n, okPc) ==
    /\ granted \/ ctxDone
    /\ IF AcquireSeesDone(ctxDone)
       THEN LoopReturns(CtxErr) /\ cur' = cur
       ELSE /\ granted
            /\ loopPc' = okPc
            /\ granted' = FALSE
            /\ UNCHANGED <<loopErr, cur>>

AcquireWake(n, okPc) ==
    /\ granted \/ ctxDone
    /\ IF AcquireSeesDone(ctxDone)
       THEN /\ LoopReturns(CtxErr)
            /\ cur' = IF granted THEN cur - n ELSE cur
       ELSE /\ granted
            /\ loopPc' = okPc
            /\ granted' = FALSE
            /\ UNCHANGED <<loopErr, cur>>

\* if err := sem.Acquire(pc.checkCtx, 1); err != nil { return err }
LoopAcquire ==
    /\ ~panicked
    /\ loopPc = "acquire"
    /\ AcquireCall(1, "recv", "wait1")
    /\ UNCHANGED <<cfgVars, callerVars, finVars, chanVars, nReq, workerVars,
                   setVars, groupVars, parentDone, histVars>>

LoopAcquireWake ==
    /\ ~panicked
    /\ loopPc = "wait1"
    /\ AcquireWake(1, "recv")
    /\ UNCHANGED <<cfgVars, callerVars, finVars, chanVars, nReq, workerVars,
                   setVars, groupVars, parentDone, histVars>>

\* close(ch) takes every blocked sender off the channel (they panic), so a
\* receive pairs only with a sender on an open channel.
SenderSurvivesClose == callerPc = "sending"
SenderReady == callerPc = "sending" /\ ~closed

\* The request of the blocked send.
SenderReq ==
    [Metadata |-> sendMeta, ObjectAndRelation |-> sendRes, Subject |-> sendSubj]

\* A receive from toCheck yields a request: a buffered one first, else the
\* one of a blocked sender.
RecvReady == buf # <<>> \/ SenderReady
RecvReq == IF buf # <<>> THEN Head(buf) ELSE SenderReq

\* The receive's effect on the channel: the head of the buffer leaves, a
\* blocked sender's request takes the free place (or is handed over
\* directly), and that send returns.
ChanRecv ==
    /\ buf' = IF buf = <<>> THEN buf
              ELSE IF SenderReady THEN Append(Tail(buf), SenderReq)
              ELSE Tail(buf)
    /\ IF SenderReady
       THEN /\ callerPc' = "idle"
            /\ sendRes' = NoRes
            /\ sendMeta' = NoMeta
            /\ sendSubj' = NoRes
       ELSE UNCHANGED callerVars

LoopRecvDropsRequest ==
    /\ ~panicked
    /\ loopPc = "recv"
    /\ RecvReady
    /\ ChanRecv
    /\ nReq' = nReq + 1
    /\ queued' = queued \cup {RecvReq.ObjectAndRelation}
    /\ UNCHANGED <<cfgVars, finVars, closed, panicked, loopVars, cur,
                   workerVars, setVars, groupVars, parentDone, memberSeen,
                   backendFailed>>

LoopRecvWithoutToken ==
    /\ ~panicked
    /\ loopPc = "recv"
    /\ RecvReady
    /\ ChanRecv
    /\ nReq' = nReq + 1
    /\ wpc' = Upd(wpc, nReq + 1, "spawned")
    /\ wres' = Upd(wres, nReq + 1, RecvReq.ObjectAndRelation)
    /\ wmeta' = Upd(wmeta, nReq + 1, RecvReq.Metadata)
    /\ wsubj' = Upd(wsubj, nReq + 1, RecvReq.Subject)
    /\ cur' = cur + 1
    /\ queued' = queued \cup {RecvReq.ObjectAndRelation}
    /\ UNCHANGED <<cfgVars, finVars, closed, panicked, loopVars, werr,
                   setVars, groupVars, parentDone, memberSeen,
                   backendFailed>>

\* req, ok := <-pc.toCheck with ok = true, then pc.g.Go(worker): the blocked
\* QueueCheck returns and the worker goroutine exists (wg.Add(1) is done).
LoopRecvRequest ==
    /\ ~panicked
    /\ loopPc = "recv"
    /\ RecvReady
    /\ ChanRecv
    /\ nReq' = nReq + 1
    /\ wpc' = Upd(wpc, nReq + 1, "spawned")
    /\ wres' = Upd(wres, nReq + 1, RecvReq.ObjectAndRelation)
    /\ wmeta' = Upd(wmeta, nReq + 1, RecvReq.Metadata)
    /\ wsubj' = Upd(wsubj, nReq + 1, RecvReq.Subject)
    /\ loopPc' = "acquire"
    /\ queued' = queued \cup {RecvReq.ObjectAndRelation}
    /\ UNCHANGED <<cfgVars, finVars, closed, panicked, loopErr, granted, cur,
                   werr, setVars, groupVars, parentDone, memberSeen,
                   backendFailed>>

\* req, ok := <-pc.toCheck with ok = false: sem.Release(1); break
LoopRecvClosed ==
    /\ ~panicked
    /\ loopPc = "recv"
    /\ closed
    /\ ~RecvReady
    /\ cur' = cur - 1
    /\ loopPc' = "drain"
    /\ UNCHANGED <<cfgVars, callerVars, finVars, chanVars, loopErr, granted,
                   nReq, workerVars, setVars, groupVars, parentDone,
                   histVars>>

\* if err := sem.Acquire(pc.checkCtx, int64(pc.maxConcurrent)); ...; return nil
LoopDrain ==
    /\ ~panicked
    /\ loopPc = "drain"
    /\ AcquireCall(maxConcurrent, "ret", "waitN")
    /\ UNCHANGED <<cfgVars, callerVars, finVars, chanVars, nReq, workerVars,
                   setVars, groupVars, parentDone, histVars>>

LoopDrainWake ==
    /\ ~panicked
    /\ loopPc = "waitN"
    /\ AcquireWake(maxConcurrent, "ret")
    /\ UNCHANGED <<cfgVars, callerVars, finVars, chanVars, nReq, workerVars,
                   setVars, groupVars, parentDone, histVars>>

\* errgroup's wrapper around a task that returned e: a non-nil e is kept by
\* errOnce and cancels checkCtx; then g.done().
TaskReports(e) ==
    IF e = NilErr
    THEN UNCHANGED groupVars
    ELSE /\ gerr' = ErrOnce(gerr, e)
         /\ ctxDone' = TRUE
         /\ firstErr' = IF firstErr = NilErr THEN e ELSE firstErr

LoopExit ==
    /\ ~panicked
    /\ loopPc = "ret"
    /\ TaskReports(loopErr)
    /\ loopPc' = "done"
    /\ UNCHANGED <<cfgVars, callerVars, finVars, chanVars, loopErr, granted,
                   cur, nReq, workerVars, setVars, parentDone, histVars>>

(***************************************************************************)
(* The worker goroutines                                                   *)
(***************************************************************************)
\* pc.c.DispatchCheck(pc.checkCtx, req) is called.
WorkerCall(i) ==
    /\ ~panicked
    /\ wpc[i] = "spawned"
    /\ wpc' = Upd(wpc, i, "calling")
    /\ UNCHANGED <<cfgVars, callerVars, finVars, chanVars, loopVars, cur,
                   nReq, wres, werr, setVars, groupVars, parentDone, histVars,
                   wmeta, wsubj>>

\* The backend returns o; the worker goes on to AddResult (MEMBER) or to
\* its return (NOT_MEMBER, error).
BackendReturns(i, o) ==
    /\ ~panicked
    /\ wpc[i] = "calling"
    /\ werr' = Upd(werr, i, o = "ERR")
    /\ wpc' = Upd(wpc, i, IF IsMember(o) THEN "lock" ELSE "release")
    /\ wres' = IF IsMember(o) THEN wres ELSE Upd(wres, i, NoRes)
    /\ wmeta' = Upd(wmeta, i, NoMeta)
    /\ wsubj' = Upd(wsubj, i, NoRes)
    /\ memberSeen' = IF o = "MEMBER" THEN memberSeen \cup {wres[i]}
                                     ELSE memberSeen
    /\ backendFailed' = (backendFailed \/ o = "ERR")
    /\ UNCHANGED <<cfgVars, callerVars, finVars, chanVars, loopVars, cur,
                   nReq, setVars, groupVars, parentDone, queued>>

\* AddResult: pc.mu.Lock()
WorkerLockNoMutex(i) ==
    /\ ~panicked
    /\ wpc[i] = "lock"
    /\ mu' = i
    /\ wpc' = Upd(wpc, i, "add")
    /\ UNCHANGED <<cfgVars, callerVars, finVars, chanVars, loopVars, cur,
                   nReq, wres, werr, results, wsnap, groupVars, parentDone,
                   histVars, wmeta, wsubj>>

WorkerLock(i) ==
    /\ ~panicked
    /\ wpc[i] = "lock"
    /\ mu = 0
    /\ mu' = i
    /\ wpc' = Upd(wpc, i, "add")
    /\ UNCHANGED <<cfgVars, callerVars, finVars, chanVars, loopVars, cur,
                   nReq, wres, werr, results, wsnap, groupVars, parentDone,
                   histVars, wmeta, wsubj>>

\* AddResult: pc.results.Add(resource) reads the set ...
WorkerAdd(i) ==
    /\ ~panicked
    /\ wpc[i] = "add"
    /\ wsnap' = Upd(wsnap, i, results)
    /\ wpc' = Upd(wpc, i, "store")
    /\ UNCHANGED <<cfgVars, callerVars, finVars, chanVars, loopVars, cur,
                   nReq, wres, werr, mu, results, groupVars, parentDone,
                   histVars, wmeta, wsubj>>

\* ... and writes it back with the resource in it; the deferred
\* pc.mu.Unlock() follows.
WorkerStore(i) ==
    /\ ~panicked
    /\ wpc[i] = "store"
    /\ results' = ONRSetAdd(wsnap[i], wres[i])
    /\ mu' = 0
    /\ wpc' = Upd(wpc, i, "release")
    /\ wres' = Upd(wres, i, NoRes)
    /\ wsnap' = Upd(wsnap, i, NewONRSet)
    /\ UNCHANGED <<cfgVars, callerVars, finVars, chanVars, loopVars, cur,
                   nReq, werr, wmeta, wsubj, groupVars, parentDone,
                   histVars>>

WorkerKeepsToken(i) ==
    /\ ~panicked
    /\ wpc[i] = "release"
    /\ wpc' = Upd(wpc, i, "exit")
    /\ UNCHANGED <<cfgVars, callerVars, finVars, chanVars, loopVars, cur,
                   nReq, wres, werr, setVars, groupVars, parentDone, histVars,
                   wmeta, wsubj>>

\* The worker function returns: the deferred sem.Release(1) runs; Release
\* hands the tokens to the queued waiter when its weight now fits.
WorkerRelease(i) ==
    /\ ~panicked
    /\ wpc[i] = "release"
    /\ wpc' = Upd(wpc, i, "exit")
    /\ IF WaiterWeight > 0 /\ ~granted /\ maxConcurrent - (cur - 1) >= WaiterWeight
       THEN cur' = cur - 1 + WaiterWeight /\ granted' = TRUE
       ELSE cur' = cur - 1 /\ granted' = granted
    /\ UNCHANGED <<cfgVars, callerVars, finVars, chanVars, loopPc, loopErr,
                   nReq, wres, werr, setVars, groupVars, parentDone, histVars,
                   wmeta, wsubj>>

\* The error the worker function returned.
WorkerErr(i) == IF werr[i] THEN BackendErr(i) ELSE NilErr

\* errgroup's wrapper: report the error, g.done().
WorkerExit(i) ==
    /\ ~panicked
    /\ wpc[i] = "exit"
    /\ TaskReports(WorkerErr(i))
    /\ wpc' = Upd(wpc, i, "done")
    /\ werr' = Upd(werr, i, FALSE)
    /\ UNCHANGED <<cfgVars, callerVars, finVars, chanVars, loopVars, cur,
                   nReq, wres, setVars, parentDone, histVars, wmeta, wsubj>>

(***************************************************************************)
(* Specifications                                                          *)
(***************************************************************************)
CallerStep ==
    \/ Start
    \/ \E r \in Inputs : QueueCheck(r)
    \/ FinishClose
    \/ FinishReturn

Misuse ==
    \/ \E r \in Inputs : QueueCheckAfterFinish(r)
    \/ FinishCloseWhileSending
    \/ SendPanics

LoopStep ==
    \/ LoopAcquire
    \/ LoopAcquireWake
    \/ LoopRecvRequest
    \/ LoopRecvClosed
    \/ LoopDrain
    \/ LoopDrainWake
    \/ LoopExit

WorkerStep(i) ==
    \/ WorkerCall(i)
    \/ \E o \in Outcomes : BackendReturns(i, o)
    \/ WorkerLock(i)
    \/ WorkerAdd(i)
    \/ WorkerStore(i)
    \/ WorkerRelease(i)
    \/ WorkerExit(i)

\* The checker used as documented: Start, QueueCheck*, Finish from one
\* goroutine, under a context that may be cancelled.
Next ==
    \/ CallerStep
    \/ ParentCancel
    \/ LoopStep
    \/ \E i \in Reqs : WorkerStep(i)

Spec == Init /\ [][Next]_vars

\* Scheduling: every goroutine that can take a step eventually takes one,
\* and every backend call eventually returns.  The cancellation of the
\* caller's context is not bound to happen.
Fairness ==
    /\ WF_vars(CallerStep)
    /\ WF_vars(LoopStep)
    /\ \A i \in Reqs : WF_vars(WorkerStep(i))

LiveSpec == Spec /\ Fairness

\* The same runs, started from any limit, zero included.
AnySpec == AnyInit /\ [][Next]_vars /\ Fairness

\* Runs in which the caller's context is never cancelled and no backend call
\* fails.
HappyWorkerStep(i) ==
    \/ WorkerCall(i)
    \/ \E o \in Outcomes \ {"ERR"} : BackendReturns(i, o)
    \/ WorkerLock(i)
    \/ WorkerAdd(i)
    \/ WorkerStore(i)
    \/ WorkerRelease(i)
    \/ WorkerExit(i)

HappyNext ==
    \/ CallerStep
    \/ LoopStep
    \/ \E i \in Reqs : HappyWorkerStep(i)

HappySpec ==
    /\ Init
    /\ [][HappyNext]_vars
    /\ WF_vars(CallerStep)
    /\ WF_vars(LoopStep)
    /\ \A i \in Reqs : WF_vars(HappyWorkerStep(i))

\* The same with QueueCheck and Finish overlapping or out of order.  A panic
\* ends the process: no step is enabled once panicked holds.
MisuseNext ==
    \/ Next
    \/ Misuse

MisuseSpec == Init /\ [][MisuseNext]_vars

(***************************************************************************)
(* Properties                                                              *)
(***************************************************************************)
LoopAtAcquire == loopPc \in {"acquire", "wait1", "drain", "waitN"}
IsBackendErr(e) == e[1] = "backend"

\* C1: at most maxConcurrent backend DispatchCheck calls have started and
\* not yet returned, in every reachable state.
C1_BoundedInFlight == Cardinality(InBackend) <= maxConcurrent

\* C1 witness: the ceiling is reached while a further request is waiting.
C1_Witness ==
    /\ Cardinality(InBackend) = maxConcurrent
    /\ callerPc = "sending"
    /\ loopPc = "wait1"

\* C2: when Finish returns success, the collector it returns is exactly the
\* set of resources for which a backend call returned MEMBER.
C2_SuccessCollector ==
    (finPc = "returned" /\ retErr = NilErr)
        => (~retNil /\ retColl = memberSeen)

\* C2 witness: success with a MEMBER resource, a resource that is no member
\* and a resource queued twice.
C2_Witness ==
    /\ finPc = "returned"
    /\ retErr = NilErr
    /\ retColl # {}
    /\ retColl # queued
    /\ nReq > Cardinality(queued)

\* C3 as stated: whenever a backend call failed, Finish returns a backend
\* error.
C3_Original ==
    (finPc = "returned" /\ backendFailed) => IsBackendErr(retErr)

\* C3 amended: Finish returns the first error any task reported to the
\* group; when a backend call failed and the caller's context was not
\* cancelled, that is a backend error, and no later error replaces it.
C3_FirstErrorWins ==
    (finPc = "returned" /\ backendFailed)
        => /\ retErr = firstErr
           /\ retErr # NilErr
           /\ ~parentDone => IsBackendErr(retErr)

\* C3 witness: Finish returned a backend error although the dispatch loop
\* reported the context error afterwards.
C3_Witness ==
    /\ finPc = "returned"
    /\ IsBackendErr(retErr)
    /\ loopErr = CtxErr
    /\ ~parentDone

\* C4: Finish returns (collector, nil) or (nil, error); once a task has
\* failed it returns no collector.
C4_ResultShape ==
    finPc = "returned"
        => /\ \/ retErr = NilErr /\ ~retNil
              \/ retErr # NilErr /\ retNil
           /\ (firstErr # NilErr \/ backendFailed) => retNil

\* C4 witness: a failed Finish although results had been inserted.
C4_Witness ==
    /\ finPc = "returned"
    /\ retNil
    /\ retErr # NilErr
    /\ Members(results) # {}

\* C5 as stated: once a backend call has returned an error, no backend call
\* is started.
C5_NoCallAfterFailure ==
    [][backendFailed
        => \A i \in Reqs : ~(wpc[i] = "spawned" /\ wpc'[i] = "calling")]_vars

\* C6 as stated: after a backend failure (the caller's context not being
\* cancelled) Finish eventually returns.
C6_CleanShutdown ==
    (backendFailed /\ ~parentDone) ~> (finPc = "returned" \/ parentDone)

\* C7: with no cancellation and no backend error every QueueCheck returns
\* and Finish eventually returns success.
C7_SuccessTerminates ==
    <>(finPc = "returned" /\ retErr = NilErr /\ callerPc = "idle")

\* C7 witness: a successful Finish after more requests than tokens.
C7_Witness ==
    /\ finPc = "returned"
    /\ retErr = NilErr
    /\ nReq > maxConcurrent

\* C8: when Finish has returned, the loop and every worker are done, no
\* backend call or insertion is in progress and none happens afterwards;
\* on success the loop holds all maxConcurrent tokens.
C8_FinishAfterAll ==
    /\ [](finPc = "returned"
            => /\ loopPc = "done"
               /\ WorkersRunning = {}
               /\ mu = 0
               /\ retErr = NilErr => (cur = maxConcurrent /\ retColl = Members(results)))
    /\ [][finPc = "returned" => (results' = results /\ wpc' = wpc)]_vars

\* C8 witness: Finish returned with an error after workers had been spawned.
C8_Witness ==
    /\ finPc = "returned"
    /\ retErr # NilErr
    /\ nReq > 1

\* C9: once the caller's context is cancelled before the loop has drained,
\* the loop's next Acquire returns the context error, and Finish returns an
\* error and no collector.
C9_CancelledNeverSucceeds ==
    /\ []((finPc = "returned" /\ parentDone) => (retErr # NilErr /\ retNil))
    /\ [][(parentDone /\ LoopAtAcquire /\ loopPc' # loopPc)
            => (loopPc' = "ret" /\ loopErr' = CtxErr)]_vars

\* C9 witness: a cancelled run with requests in which Finish returned the
\* context error.
C9_Witness ==
    /\ finPc = "returned"
    /\ parentDone
    /\ retErr = CtxErr
    /\ nReq > 0

\* C10: a QueueCheck made after, or blocked during, the close of toCheck
\* panics; its request is never received by the loop.
C10_LateQueueCheckPanics ==
    /\ [][closed => nReq' = nReq]_vars
    /\ [][((callerPc = "sending" /\ closed) \/ (callerPc = "idle" /\ finPc # "none"))
            /\ callerPc' # callerPc => panicked']_vars

\* C10 witness: the QueueCheck that was blocked when Finish closed the
\* channel has panicked.
C10_Witness ==
    /\ panicked
    /\ sendRes # NoRes
    /\ nReq > 0

\* C11 as stated: Start then Finish with no QueueCheck returns an empty
\* collector and no error.
C11_Original ==
    (finPc = "returned" /\ nReq = 0)
        => (retErr = NilErr /\ ~retNil /\ retColl = {})

\* C11 amended: the same, unless the caller's context was cancelled before
\* the loop had drained; no backend call is made in either case.
C11_EmptyRun ==
    (finPc = "returned" /\ nReq = 0)
        => /\ \A i \in Reqs : wpc[i] = "none"
           /\ ~parentDone => (retErr = NilErr /\ ~retNil /\ retColl = {})

\* C11 witness: the empty run has returned success with two tokens.
C11_Witness ==
    /\ finPc = "returned"
    /\ nReq = 0
    /\ retErr = NilErr
    /\ ~retNil
    /\ cur = maxConcurrent
    /\ maxConcurrent > 1

\* C12: a dispatcher constructed with a limit below one is rejected or fails
\* loudly: once started, its use ends in a panic or in Finish returning an
\* error, without waiting for the caller to cancel the context.
C12_ZeroLimitFailsLoudly ==
    (maxConcurrent = 0 /\ callerPc = "idle")
        ~> \/ panicked
           \/ finPc = "returned" /\ retErr # NilErr
           \/ parentDone

\* C13: once the shared context is cancelled, for whatever reason, the loop
\* spawns no worker and no worker starts a backend call, the loop's blocked
\* receive with a token in hand included.
C13_NoWorkAfterCancel ==
    [][ctxDone =>
        /\ nReq' = nReq
        /\ \A i \in Reqs : wpc'[i] = "calling" => wpc[i] = "calling"]_vars

\* C15: in every reachable state, failing runs included, the collector holds
\* no resource twice and only resources for which a backend call has already
\* returned MEMBER.
C15_CollectorSound ==
    \A r \in Resources :
        /\ results[r] <= 1
        /\ results[r] > 0 => r \in memberSeen

\* C15 witness: in a failing run a worker is inserting a resource the
\* collector already holds.
C15_Witness ==
    /\ backendFailed
    /\ \E i \in Reqs : wpc[i] = "store" /\ results[wres[i]] = 1

\* Workers inside the critical section of AddResult.
InAddResult == {i \in Reqs : wpc[i] \in {"add", "store"}}

\* C16: at most one task is inside AddResult's critical section; an
\* insertion leaves its resource in the collector exactly once, keeps every
\* other entry, and changes nothing when the resource is already there; no
\* step removes an entry.
C16_ExclusiveInsert ==
    /\ [](/\ Cardinality(InAddResult) <= 1
          /\ \A i \in InAddResult : mu = i)
    /\ [][\A i \in Reqs :
            (wpc[i] = "store" /\ wpc'[i] = "release")
                => /\ results'[wres[i]] = 1
                   /\ \A r \in Resources \ {wres[i]} : results'[r] = results[r]
                   /\ results[wres[i]] > 0 => results' = results]_vars
    /\ [][\A r \in Resources : results'[r] >= results[r]]_vars

\* C16 witness: one worker is inside the critical section while another
\* waits for the mutex with a resource the collector does not hold yet.
C16_Witness ==
    \E i, j \in Reqs :
        /\ wpc[i] = "store"
        /\ wpc[j] = "lock"
        /\ mu = i
        /\ wres[i] # wres[j]
        /\ results[wres[j]] = 0

\* Tokens of the semaphore held by worker i: one from pc.g.Go until its
\* deferred sem.Release(1).
WorkerTokens(i) ==
    IF wpc[i] \in {"spawned", "calling", "lock", "add", "store", "release"}
    THEN 1 ELSE 0

\* Tokens held by the dispatch loop: the one it acquired for the next
\* request, the ones a queued waiter was granted, and all of them after the
\* final sem.Acquire(pc.checkCtx, int64(pc.maxConcurrent)) succeeded.
LoopTokens ==
    CASE loopPc = "recv" -> 1
      [] loopPc \in {"wait1", "waitN"} -> IF granted THEN WaiterWeight ELSE 0
      [] loopPc \in {"ret", "done"} ->
            IF loopErr = NilErr THEN maxConcurrent ELSE 0
      [] OTHER -> 0

RECURSIVE SumWorkerTokens(_)
SumWorkerTokens(n) ==
    IF n = 0 THEN 0 ELSE WorkerTokens(n) + SumWorkerTokens(n - 1)

TokenAccounting ==
    /\ cur = LoopTokens + SumWorkerTokens(MaxQueue)
    /\ cur >= 0
    /\ cur <= maxConcurrent

\* C17 as stated: every token taken is held by the loop or by one worker,
\* one per worker, at most one by the loop, never more than N in total.
C17_Original ==
    /\ TokenAccounting
    /\ LoopTokens <= 1

\* C17 amended: the loop holds at most one token while it dispatches, and
\* all N once its final acquisition has succeeded.
C17_TokensHeld ==
    /\ TokenAccounting
    /\ loopPc \in {"idle", "acquire", "wait1", "recv", "drain"}
            => LoopTokens <= 1
    /\ loopPc \in {"waitN", "ret", "done"}
            => LoopTokens \in {0, maxConcurrent}

\* C17 witness: after requests were served the loop's final acquisition took
\* both tokens.
C17_Witness ==
    /\ maxConcurrent = 2
    /\ nReq > 0
    /\ loopPc = "ret"
    /\ LoopTokens = 2
    /\ cur = 2

\* Requests the loop has accepted, and requests passed to the backend.
Accepted == {i \in Reqs : wpc[i] # "none"}
Dispatched == {i \in Reqs : wpc[i] \notin {"none", "spawned"}}

\* C19: every returned QueueCheck has exactly one worker, a worker enters
\* pc.c.DispatchCheck at most once and never starts over, and when Finish
\* returns success every accepted request has been dispatched.
C19_DispatchedOnce ==
    /\ [](/\ \A i \in Reqs : wpc[i] # "none" <=> i <= nReq
          /\ (finPc = "returned" /\ retErr = NilErr)
                => \A i \in Reqs : wpc[i] \in {"none", "done"})
    /\ [][\A i \in Reqs :
            /\ (wpc'[i] = "calling" /\ wpc[i] # "calling")
                    => wpc[i] = "spawned"
            /\ (wpc'[i] = "spawned" /\ wpc[i] # "spawned")
                    => (wpc[i] = "none" /\ i = nReq + 1 /\ nReq' = i)
            /\ wpc[i] \notin {"none", "spawned"}
                    => wpc'[i] \notin {"none", "spawned"}]_vars

\* C19 witness: Finish returned success after several requests.
C19_Witness ==
    /\ finPc = "returned"
    /\ retErr = NilErr
    /\ nReq >= 2
    /\ Cardinality(Dispatched) = nReq

\* Accepted requests whose worker still holds its token.
Unreleased == {i \in Reqs : WorkerTokens(i) = 1}

\* C20: the loop takes a request only while it holds a token, which becomes
\* the new worker's; the accepted requests whose worker has not released its
\* token are never more than N.
C20_AcceptedAhead ==
    /\ [](Cardinality(Unreleased) <= maxConcurrent)
    /\ [][nReq' # nReq =>
            /\ LoopTokens = 1
            /\ LoopTokens' = 0
            /\ Unreleased' = Unreleased \cup {nReq'}
            /\ nReq' \notin Unreleased
            /\ cur' = cur]_vars

\* C20 witness: N accepted requests are unfinished and the caller is blocked
\* with the next one while the loop waits for a token.
C20_Witness ==
    /\ Cardinality(Unreleased) = maxConcurrent
    /\ maxConcurrent > 1
    /\ callerPc = "sending"
    /\ loopPc = "wait1"
    /\ InBackend # Unreleased

\* C14: QueueCheck is a rendezvous: toCheck never holds a request, a blocked
\* QueueCheck is the call that follows the ones the loop has received, and it
\* returns only in the step in which the loop takes its request.
C14_Rendezvous ==
    /\ [](/\ Len(buf) = 0
          /\ callerPc = "sending"
                => (sendRes \in Resources /\ sendMeta = Meta(nReq + 1)))
    /\ [][(callerPc = "sending" /\ callerPc' # "sending")
            => /\ nReq' = nReq + 1
               /\ wpc'[nReq'] = "spawned"
               /\ wres'[nReq'] = sendRes]_vars

\* C14 witness: after one request was taken the caller is blocked with the
\* next while the loop is busy acquiring a token.
C14_Witness ==
    /\ callerPc = "sending"
    /\ nReq >= 1
    /\ loopPc = "acquire"
    /\ sendMeta = Meta(nReq + 1)
    /\ buf = <<>>

\* Workers whose request is about to be, or is being, checked by the backend.
HoldsRequest(i) == wpc[i] \in {"spawned", "calling"}

\* C18: the request a worker passes to the backend carries the subject fixed
\* at construction and the resource and metadata of its QueueCheck call, all
\* the way from the call to the backend; subject and maxConcurrent never
\* change.
C18_RequestUnchanged ==
    /\ [](/\ subject = Subject
          /\ \A i \in Reqs : HoldsRequest(i)
                => /\ wsubj[i] = subject
                   /\ wmeta[i] = Meta(i)
                   /\ wres[i] \in queued)
    /\ [][(callerPc = "idle" /\ callerPc' = "sending")
            => /\ sendSubj' = subject
               /\ sendMeta' = Meta(nReq + 1)
               /\ sendRes' \in Inputs]_vars
    /\ [][nReq' # nReq
            => /\ wres'[nReq'] = sendRes
               /\ wmeta'[nReq'] = sendMeta
               /\ wsubj'[nReq'] = sendSubj]_vars
    /\ [][\A i \in Reqs : (HoldsRequest(i) /\ HoldsRequest(i)')
            => /\ wres'[i] = wres[i]
               /\ wmeta'[i] = wmeta[i]
               /\ wsubj'[i] = wsubj[i]]_vars
    /\ [][subject' = subject /\ maxConcurrent' = maxConcurrent]_vars

\* C18 witness: the backend is checking the second request, for a second
\* resource, after the first was inserted.
C18_Witness ==
    /\ wpc[2] = "calling"
    /\ wres[2] = ResourceOrder[2]
    /\ wmeta[2] = Meta(2)
    /\ wsubj[2] = Subject
    /\ results[ResourceOrder[1]] = 1

====
